---- MODULE Spec2Model ----
(***************************************************************************)
(* ripozo: the apimethod / validate / translate decorators                 *)
(* (ripozo/decorators.py) and the CRUD+L rest mixins                       *)
(* (ripozo/resources/restmixins.py).                                       *)
(*                                                                         *)
(* Function objects, the route lists they share by reference, the two     *)
(* decorator objects and the calls in flight are the state.  A call is    *)
(* the list of the collaborators it has invoked so far (pre-processors,   *)
(* request.validate, request.translate, the body, post-processors).       *)
(***************************************************************************)
EXTENDS Integers, Sequences, FiniteSets, TLC

\* ------------------------------------------------------------------ bounds
MaxObjs == 5        \* function objects while requests are served (Spec, SpecBind)
MaxStack == 6       \* function objects at class-definition time (SpecRoutes)
MaxBound == 2       \* bound callables a caller keeps at once (SpecBind)
MaxUserClasses == 1 \* classes the application defines (SpecMixins)
MaxBases == 2       \* base classes of a class of the application (SpecMixins)

\* ------------------------------------------------- the classes of the scene
\* A defines the action; B1 and B2 inherit it and have managers of their own.
Classes == {"A", "B1", "B2"}
ManagerFieldValidators(cls) ==
  CASE cls = "A" -> <<>>
    [] cls = "B1" -> <<"c">>
    [] cls = "B2" -> <<"d">>
Preprocessors(cls) == <<"p1", "p2">>
Postprocessors(cls) == <<"q1", "q2">>

\* The arguments the decorators of the scene are constructed with.
ValidateFields == <<"a", "b">>
TranslateFields == <<"b">>
PlainNames == <<"create", "update">>

VARIABLES
  fn,       \* function objects, by id: plain functions, validate/translate actions,
            \* apimethod's wrapped functions and _apiclassmethod descriptors
  lists,    \* the route list objects, by id (a list is shared by reference)
  vdec,     \* the validate decorator object
  tdec,     \* the translate decorator object
  bound,    \* the callables __get__ has returned (newfunc closures)
  calls,    \* the call in flight (a request is handled on its own, from its
            \* construction by the adapter until its response is built)
  cls_tab,  \* restmixins: the classes defined, by name
  lk,       \* restmixins: the last read of a class's links
  rl        \* restmixins: the last retrieve_list call
vars == <<fn, lists, vdec, tdec, bound, calls, cls_tab, lk, rl>>
decoVars == <<fn, lists, vdec, tdec, bound, calls>>
mixinVars == <<cls_tab, lk, rl>>

\* ------------------------------------------------------ function objects
\* __dict__ of a function object: `keys` are the attributes present.
NoAttrs == [keys |-> {}, routes |-> 0, fields |-> <<>>, original_fields |-> <<>>,
            mfv |-> FALSE]

\* `self`: the entry of the apimethod object a wrapped function closes over.
\* `own`: the list the validate/translate decorator held when it made the action.
NoEntry == [route |-> "-", endpoint |-> "-", options |-> "-"]
PlainFn(name) ==
  [kind |-> "plain", f |-> 0, name |-> name, self |-> NoEntry, own |-> <<>>,
   attrs |-> NoAttrs]

\* functools.wraps(f): the wrapper takes f's __name__ and f's __dict__ entries.
Wraps(kind, f) ==
  [kind |-> kind, f |-> f, name |-> fn[f].name, self |-> NoEntry, own |-> <<>>,
   attrs |-> fn[f].attrs]

HasRoutes(o) == "routes" \in o.attrs.keys

\* wrapped.routes = []
GetattrRoutesFresh(o) == [ls |-> Append(lists, <<>>), id |-> Len(lists) + 1]
\* getattr(f, 'routes', []): f's list object, or a new empty list object.
GetattrRoutes(o) ==
  IF HasRoutes(o) THEN [ls |-> lists, id |-> o.attrs.routes]
  ELSE [ls |-> Append(lists, <<>>), id |-> Len(lists) + 1]

\* @decorator syntax: a decorator is applied to the function the stack of
\* decorators has produced so far (wrapped is held by its descriptor only).
Decoratable ==
  {o \in 1..Len(fn) : fn[o].kind # "wrapped" /\ \A p \in 1..Len(fn) : fn[p].f # o}

\* --------------------------------------------------------- construction
\* validate.__init__ and translate.__init__ (original_fields is set by __call__)
ValidateInit(fields, manager_field_validators, skip_required) ==
  [fields |-> fields, original_fields |-> <<>>,
   manager_field_validators |-> manager_field_validators,
   skip_required |-> skip_required]
TranslateInit(fields, manager_field_validators) ==
  [fields |-> fields, manager_field_validators |-> manager_field_validators]

\* apimethod.__init__: the route entry the decorator will append
ApimethodInit(route, endpoint, options) ==
  [route |-> route, endpoint |-> endpoint, options |-> options]

\* @apimethod(methods=['GET']) as the mixins use it, and two routed ones.
MixinEntry == ApimethodInit("", "None", "methods=GET")
RouteEntries == {ApimethodInit("/x", "ex", "methods=GET"),
                 ApimethodInit("/y", "ey", "methods=POST")}

InitDeco ==
  /\ fn = <<>>
  /\ lists = <<>>
  /\ \E m \in BOOLEAN, s \in BOOLEAN : vdec = ValidateInit(ValidateFields, m, s)
  /\ \E m \in BOOLEAN : tdec = TranslateInit(TranslateFields, m)
  /\ bound = {}
  /\ calls = <<>>

\* ------------------------------------------------------------ decoration
\* apimethod.__call__(f): wrapped takes f's list (or a new one), the entry is
\* appended to that list in place, and the descriptor holds the same list.
ApimethodCall(entry, f) ==
  LET w0 == [Wraps("wrapped", f) EXCEPT !.self = entry]
      got == GetattrRoutes(w0)
      w == [w0 EXCEPT !.attrs.keys = @ \cup {"__rest_route__", "routes"},
                      !.attrs.routes = got.id]
      acm == [kind |-> "acm", f |-> Len(fn) + 1, name |-> "_apiclassmethod",
              self |-> NoEntry, own |-> <<>>,
              attrs |-> [NoAttrs EXCEPT !.keys = {"f", "rest_route", "routes"},
                                        !.routes = got.id]]
  IN /\ fn' = Append(Append(fn, w), acm)
     /\ lists' = [got.ls EXCEPT ![got.id] = Append(@, entry)]
     /\ UNCHANGED <<vdec, tdec, bound, calls>>

\* The attributes set before functools.wraps copies f's over them.
AttrsUnderWraps(attrs, fields, mfv) ==
  [attrs EXCEPT !.keys = @ \cup {"fields", "original_fields",
                                 "__manager_field_validators__"},
                !.fields = IF "fields" \in attrs.keys THEN @ ELSE fields,
                !.original_fields = IF "original_fields" \in attrs.keys THEN @ ELSE fields,
                !.mfv = IF "__manager_field_validators__" \in attrs.keys THEN @ ELSE mfv]
\* action.fields, action.original_fields, action.__manager_field_validators__,
\* set after functools.wraps has copied f's attributes.
ActionAttrs(attrs, fields, mfv) ==
  [attrs EXCEPT !.keys = @ \cup {"fields", "original_fields",
                                 "__manager_field_validators__"},
                !.fields = fields,
                !.original_fields = fields,
                !.mfv = mfv]

\* validate.__call__(f)
ValidateCall(f) ==
  LET a0 == Wraps("validate", f)
      a == [a0 EXCEPT !.attrs = ActionAttrs(@, vdec.fields, vdec.manager_field_validators),
                      !.own = vdec.fields]
  IN /\ fn' = Append(fn, a)
     /\ vdec' = [vdec EXCEPT !.original_fields = vdec.fields]
     /\ UNCHANGED <<lists, tdec, bound, calls>>

\* translate.__call__(f)
TranslateCall(f) ==
  LET a0 == Wraps("translate", f)
      a == [a0 EXCEPT !.attrs = ActionAttrs(@, tdec.fields, tdec.manager_field_validators),
                      !.own = tdec.fields]
  IN /\ fn' = Append(fn, a)
     /\ UNCHANGED <<lists, vdec, tdec, bound, calls>>

\* def create(cls, request): ... / def update(cls, request): ...
Define(limit) ==
  /\ Len(fn) < limit
  /\ \E i \in 1..Len(PlainNames) :
       /\ \A o \in 1..Len(fn) : fn[o].name # PlainNames[i]
       /\ fn' = Append(fn, PlainFn(PlainNames[i]))
  /\ UNCHANGED <<lists, vdec, tdec, bound, calls>>
  /\ UNCHANGED mixinVars

\* Class-definition time, while requests are served (Spec, SpecBind).
DefineFunction == fn = <<>> /\ Define(MaxObjs)
DecorateApimethod == \E f \in Decoratable :
  Len(fn) + 2 <= MaxObjs /\ ApimethodCall(MixinEntry, f) /\ UNCHANGED mixinVars
DecorateValidate == \E f \in Decoratable :
  Len(fn) + 1 <= MaxObjs /\ ValidateCall(f) /\ UNCHANGED mixinVars
DecorateTranslate == \E f \in Decoratable :
  Len(fn) + 1 <= MaxObjs /\ TranslateCall(f) /\ UNCHANGED mixinVars

\* Class-definition time on its own (SpecRoutes): two functions, routed entries.
StackFunction == Define(MaxStack)
StackApimethod == \E e \in RouteEntries, f \in Decoratable :
  Len(fn) + 2 <= MaxStack /\ ApimethodCall(e, f) /\ UNCHANGED mixinVars
StackValidate == \E f \in Decoratable :
  Len(fn) + 1 <= MaxStack /\ ValidateCall(f) /\ UNCHANGED mixinVars
StackTranslate == \E f \in Decoratable :
  Len(fn) + 1 <= MaxStack /\ TranslateCall(f) /\ UNCHANGED mixinVars

\* ------------------------------------------------- _apiclassmethod.__get__
\* An instance is known by its type only.
None == "None"
TypeOf(obj) == obj

\* klass = the class the method was defined in
GetKlassOfDefinition(obj, klass) == "A"
\* The class the closure binds: klass, or type(obj) when klass is not given.
GetKlass(obj, klass) == IF klass = None THEN TypeOf(obj) ELSE klass

\* __get__(obj, klass): a new closure over klass and self.f, carrying the marker
\* and the routes of self.f.
Get(desc, obj, klass) ==
  LET method == fn[desc].f
  IN [desc |-> desc, method |-> method, klass |-> GetKlass(obj, klass),
      rest_route |-> TRUE,
      routes |-> IF HasRoutes(fn[method]) THEN fn[method].attrs.routes ELSE 0]

Descriptors == {o \in 1..Len(fn) : fn[o].kind = "acm"}

\* X.action, X().action and desc.__get__(X()) for a class X of the scene; `via`
\* and `form` record the class and the way the attribute was read.
Forms == {"class", "instance", "explicit"}
Attribute(desc, X, form) ==
  [closure |-> CASE form = "class" -> Get(desc, None, X)
                 [] form = "instance" -> Get(desc, X, X)
                 [] form = "explicit" -> Get(desc, X, None),
   via |-> X, form |-> form]

\* The caller keeps the callable (m = B.action) to call it later.
Access == \E desc \in Descriptors, X \in Classes, form \in Forms :
  /\ Attribute(desc, X, form) \notin bound
  /\ Cardinality(bound) < MaxBound
  /\ bound' = bound \cup {Attribute(desc, X, form)}
  /\ UNCHANGED <<fn, lists, vdec, tdec, calls>>
  /\ UNCHANGED mixinVars

\* ------------------------------------------------------------------ calls
NoResult == [cls |-> None, req |-> "-"]
NoExc == [type |-> None, by |-> None]
Event(ev, who, c, name, fields, skip, res, out) ==
  [ev |-> ev, who |-> who, cls |-> c.cls, name |-> name, req |-> c.req,
   extra |-> c.extra, fields |-> fields, skip |-> skip, res |-> res, out |-> out]

Raise(c, type, by) ==
  [c EXCEPT !.at = 0, !.phase = "done", !.status = "raised",
            !.exc = [type |-> type, by |-> by], !.result = NoResult]
Return(c, res) ==
  [c EXCEPT !.at = 0, !.phase = "done", !.status = "returned", !.result = res]
Log(c, e) == [c EXCEPT !.trace = Append(@, e)]

\* Calling object o with (cls, request, *args): an _apiclassmethod instance has
\* no __call__; wrapped starts with its first pre-processor (or with f when the
\* class has none); the other functions start with their own first statement.
RECURSIVE Enter(_, _)
Enter(c, o) ==
  CASE fn[o].kind = "acm" -> Raise(c, "TypeError", "call")
    [] fn[o].kind = "wrapped" ->
         IF Preprocessors(c.cls) = <<>>
         THEN Enter([c EXCEPT !.wr = o], fn[o].f)
         ELSE [c EXCEPT !.at = o, !.phase = "pre", !.idx = 1, !.wr = o]
    [] fn[o].kind = "plain" -> [c EXCEPT !.at = o, !.phase = "body"]
    [] OTHER -> [c EXCEPT !.at = o, !.phase = "op"]

\* f has returned res: validate and translate actions return it as it is,
\* wrapped goes on with the post-processors.
AfterBody(c, res) ==
  IF c.wr = 0 \/ Postprocessors(c.cls) = <<>>
  THEN Return(c, res)
  ELSE [c EXCEPT !.at = c.wr, !.phase = "post", !.idx = 1, !.result = res]

NewCall(via, form, top, cls, req, extra) ==
  [via |-> via, form |-> form, top |-> top, cls |-> cls, req |-> req,
   extra |-> extra, at |-> 0, phase |-> "new", idx |-> 0, wr |-> 0, trace |-> <<>>,
   status |-> "running", exc |-> NoExc, result |-> NoResult]

\* The calls the adapter of the scene makes: action(request) and
\* action(request, "x"), each with a request of its own.
Dispatches == {[req |-> "r1", extra |-> <<>>], [req |-> "r2", extra |-> <<"x">>]}

\* newfunc(*args): args[0] is the request, or a class given explicitly.
NewFunc(b, first_is_type, cls_arg, req, extra) ==
  IF ~first_is_type
  THEN Enter(NewCall(b.via, b.form, b.closure.desc, b.closure.klass, req, extra),
             b.closure.method)
  ELSE Enter(NewCall(b.via, "explicit_cls", b.closure.desc, cls_arg, req, extra),
             b.closure.method)

\* m(request, *args) or m(Y, request, *args) on a callable kept earlier.
InvokeBound == \E b \in bound, first_is_type \in BOOLEAN, cls_arg \in Classes, d \in Dispatches :
  /\ calls = <<>>
  /\ first_is_type \/ cls_arg = "A"
  /\ calls' = <<NewFunc(b, first_is_type, cls_arg, d.req, d.extra)>>
  /\ UNCHANGED <<fn, lists, vdec, tdec, bound>>
  /\ UNCHANGED mixinVars

\* X.action(request, *args): the attribute is read and called at once.
Invoke == \E desc \in Descriptors \cap Decoratable, X \in Classes, form \in Forms,
             d \in Dispatches :
  /\ calls = <<>>
  /\ calls' = <<NewFunc(Attribute(desc, X, form), FALSE, X, d.req, d.extra)>>
  /\ UNCHANGED <<fn, lists, vdec, tdec, bound>>
  /\ UNCHANGED mixinVars

\* action(cls, request, *args) on a validate or translate action that is not
\* under apimethod.
InvokeDirect == \E o \in Decoratable, cls \in Classes, d \in Dispatches :
  /\ calls = <<>>
  /\ fn[o].kind \in {"validate", "translate"}
  /\ calls' = <<Enter(NewCall(cls, "direct", o, cls, d.req, d.extra), o)>>
  /\ UNCHANGED <<fn, lists, vdec, tdec, bound>>
  /\ UNCHANGED mixinVars

Running(i) == i \in 1..Len(calls) /\ calls[i].status = "running"

\* try: proc(...) except Exception: pass
PreStepSwallows(c, out) ==
  LET w == fn[c.at]
      procs == Preprocessors(c.cls)
      c1 == Log(c, Event("pre", procs[c.idx], c, fn[w.f].name, <<>>, FALSE, NoResult, out))
  IN IF c.idx < Len(procs) THEN [c1 EXCEPT !.idx = c.idx + 1] ELSE Enter(c1, w.f)
\* wrapped: proc(cls, f.__name__, request, *args, **kwargs) for the next
\* pre-processor; after the last one, f(cls, request, *args, **kwargs).
PreStep(c, out) ==
  LET w == fn[c.at]
      procs == Preprocessors(c.cls)
      c1 == Log(c, Event("pre", procs[c.idx], c, fn[w.f].name, <<>>, FALSE, NoResult, out))
  IN IF out = "raised" THEN Raise(c1, "ProcessorError", procs[c.idx])
     ELSE IF c.idx < Len(procs) THEN [c1 EXCEPT !.idx = c.idx + 1]
     ELSE Enter(c1, w.f)

PreProcess == \E i \in 1..Len(calls), out \in {"none", "raised"} :
  /\ Running(i) /\ calls[i].phase = "pre"
  /\ calls' = [calls EXCEPT ![i] = PreStep(calls[i], out)]
  /\ UNCHANGED <<fn, lists, vdec, tdec, bound>>
  /\ UNCHANGED mixinVars

\* What a post-processor returns when it returns something.
Replacement == [cls |-> "A", req |-> "replaced"]

\* resource = proc(...) or resource
PostStepKeepsReturn(c, out) ==
  LET w == fn[c.at]
      procs == Postprocessors(c.cls)
      c1 == Log(c, Event("post", procs[c.idx], c, fn[w.f].name, <<>>, FALSE, c.result, out))
      res == IF out = "value" THEN Replacement ELSE c.result
  IN IF out = "raised" THEN Raise(c1, "ProcessorError", procs[c.idx])
     ELSE IF c.idx < Len(procs) THEN [c1 EXCEPT !.idx = c.idx + 1, !.result = res]
     ELSE Return(c1, res)
\* wrapped: proc(cls, f.__name__, request, resource, *args, **kwargs) for the
\* next post-processor (what it returns is dropped); after the last one,
\* return resource.
PostStep(c, out) ==
  LET w == fn[c.at]
      procs == Postprocessors(c.cls)
      c1 == Log(c, Event("post", procs[c.idx], c, fn[w.f].name, <<>>, FALSE, c.result, out))
  IN IF out = "raised" THEN Raise(c1, "ProcessorError", procs[c.idx])
     ELSE IF c.idx < Len(procs) THEN [c1 EXCEPT !.idx = c.idx + 1]
     ELSE Return(c1, c.result)

PostProcess == \E i \in 1..Len(calls), out \in {"none", "value", "raised"} :
  /\ Running(i) /\ calls[i].phase = "post"
  /\ calls' = [calls EXCEPT ![i] = PostStep(calls[i], out)]
  /\ UNCHANGED <<fn, lists, vdec, tdec, bound>>
  /\ UNCHANGED mixinVars

\* skip_required left at request.validate's default when manager fields are added
ValidateArgsDefaultSkip(a, cls) ==
  IF vdec.manager_field_validators
  THEN [fields |-> a.attrs.original_fields \o ManagerFieldValidators(cls),
        skip_required |-> FALSE]
  ELSE [fields |-> a.attrs.original_fields, skip_required |-> vdec.skip_required]
\* validate's action: the arguments of request.validate
ValidateArgs(a, cls) ==
  IF vdec.manager_field_validators
  THEN [fields |-> a.attrs.original_fields \o ManagerFieldValidators(cls),
        skip_required |-> vdec.skip_required]
  ELSE [fields |-> a.attrs.original_fields, skip_required |-> vdec.skip_required]

\* validate's action: self.fields = self.original_fields + cls.manager.field_validators
ValidateSelfAfter(cls) ==
  IF vdec.manager_field_validators
  THEN [vdec EXCEPT !.fields = vdec.original_fields \o ManagerFieldValidators(cls)]
  ELSE vdec

ValidateStep(c, out) ==
  LET a == fn[c.at]
      args == ValidateArgs(a, c.cls)
      c1 == Log(c, Event("validate", "request", c, a.name, args.fields,
                         args.skip_required, NoResult, out))
  IN IF out = "raised" THEN Raise(c1, "ValidationException", "request")
     ELSE Enter(c1, a.f)

ValidateAction == \E i \in 1..Len(calls), out \in {"none", "raised"} :
  /\ Running(i) /\ calls[i].phase = "op" /\ fn[calls[i].at].kind = "validate"
  /\ vdec' = ValidateSelfAfter(calls[i].cls)
  /\ calls' = [calls EXCEPT ![i] = ValidateStep(calls[i], out)]
  /\ UNCHANGED <<fn, lists, tdec, bound>>
  /\ UNCHANGED mixinVars

\* translate's action: the list handed to request.translate
TranslateArg(a, cls) ==
  IF tdec.manager_field_validators
  THEN a.attrs.original_fields \o ManagerFieldValidators(cls)
  ELSE a.attrs.original_fields

TranslateStep(c, out) ==
  LET a == fn[c.at]
      c1 == Log(c, Event("translate", "request", c, a.name, TranslateArg(a, c.cls),
                         FALSE, NoResult, out))
  IN IF out = "raised" THEN Raise(c1, "TranslationException", "request")
     ELSE Enter(c1, a.f)

TranslateAction == \E i \in 1..Len(calls), out \in {"none", "raised"} :
  /\ Running(i) /\ calls[i].phase = "op" /\ fn[calls[i].at].kind = "translate"
  /\ calls' = [calls EXCEPT ![i] = TranslateStep(calls[i], out)]
  /\ UNCHANGED <<fn, lists, vdec, tdec, bound>>
  /\ UNCHANGED mixinVars

\* The decorated function itself: it gets (cls, request, *args) and returns a
\* resource of cls built from the request, or its manager raises.
Resource(c) == [cls |-> c.cls, req |-> c.req]
BodyStep(c, out) ==
  LET c1 == Log(c, Event("body", fn[c.at].name, c, fn[c.at].name, <<>>, FALSE,
                         NoResult, out))
  IN IF out = "raised" THEN Raise(c1, "NotFoundException", "manager")
     ELSE AfterBody(c1, Resource(c))

Body == \E i \in 1..Len(calls), out \in {"value", "raised"} :
  /\ Running(i) /\ calls[i].phase = "body"
  /\ calls' = [calls EXCEPT ![i] = BodyStep(calls[i], out)]
  /\ UNCHANGED <<fn, lists, vdec, tdec, bound>>
  /\ UNCHANGED mixinVars

\* The caller has the result (or the exception); the request is dropped.
Finish ==
  /\ calls # <<>> /\ calls[1].status # "running"
  /\ calls' = <<>>
  /\ UNCHANGED <<fn, lists, vdec, tdec, bound>>
  /\ UNCHANGED mixinVars

\* =============================================================== restmixins
\* The classes of restmixins.py and their bases, in the order written.
LibClasses ==
  {"ResourceBase", "Create", "Retrieve", "RetrieveList", "RetrieveRetrieveList",
   "Update", "Delete", "RetrieveUpdate", "RetrieveUpdateDelete", "CreateRetrieve",
   "CreateRetrieveUpdate", "CRUD", "CRUDL"}
LibBases(c) ==
  CASE c = "ResourceBase" -> <<>>
    [] c \in {"Create", "Retrieve", "RetrieveList", "Update", "Delete"} -> <<"ResourceBase">>
    [] c = "RetrieveRetrieveList" -> <<"RetrieveList", "Retrieve">>
    [] c = "RetrieveUpdate" -> <<"Retrieve", "Update">>
    [] c = "RetrieveUpdateDelete" -> <<"Retrieve", "Update", "Delete">>
    [] c = "CreateRetrieve" -> <<"Create", "Retrieve">>
    [] c = "CreateRetrieveUpdate" -> <<"Create", "Retrieve", "Update">>
    [] c = "CRUD" -> <<"Create", "Retrieve", "Update", "Delete">>
    [] c = "CRUDL" -> <<"Create", "RetrieveRetrieveList", "Update", "Delete">>

\* The classes the application defines on top of them (cls_tab), by name.
UserNames == <<"MyResource", "MySubResource">>
UserClass(tab, c) == CHOOSE i \in 1..Len(tab) : tab[i].name = c
IsUser(tab, c) == \E i \in 1..Len(tab) : tab[i].name = c
BasesIn(tab, c) == IF IsUser(tab, c) THEN tab[UserClass(tab, c)].bases ELSE LibBases(c)

\* class X(B1, ..., Bk): Python's C3 linearisation. Inconsistent stands for the
\* TypeError the class statement raises when no order exists.
Inconsistent == "<inconsistent>"
Range(s) == {s[k] : k \in 1..Len(s)}
TailOf(s) == IF s = <<>> THEN <<>> ELSE Tail(s)
Without(s, h) == SelectSeq(s, LAMBDA x : x # h)
RECURSIVE C3Merge(_)
C3Merge(seqs) ==
  LET live == SelectSeq(seqs, LAMBDA q : q # <<>>)
      good == {k \in 1..Len(live) :
                 \A j \in 1..Len(live) : Head(live[k]) \notin Range(TailOf(live[j]))}
  IN IF live = <<>> THEN <<>>
     ELSE IF good = {} THEN <<Inconsistent>>
     ELSE LET k == CHOOSE x \in good : \A y \in good : x <= y
              h == Head(live[k])
          IN <<h>> \o C3Merge([j \in 1..Len(live) |-> Without(live[j], h)])
RECURSIVE MroOf(_, _)
MroOf(tab, c) ==
  LET bases == BasesIn(tab, c)
  IN <<c>> \o C3Merge([k \in 1..(Len(bases) + 1) |->
                         IF k <= Len(bases) THEN MroOf(tab, bases[k]) ELSE bases])
\* X.__mro__: computed once by the class statement and kept on the class
Mro(c) == IF IsUser(cls_tab, c) THEN cls_tab[UserClass(cls_tab, c)].mro ELSE MroOf(<<>>, c)

\* The class bodies: which class defines links and get_base_links itself.
\* ResourceBase is not among the files; its links returns cls._links or ().
DefinesLinks == {"ResourceBase", "Create", "RetrieveList", "CRUDL"}
DefinesGetBaseLinks == {"Create", "RetrieveList"}
\* attribute lookup along the MRO
Definer(c, definers) ==
  LET m == Mro(c)
      at == {k \in 1..Len(m) : m[k] \in definers}
  IN IF at = {} THEN "None" ELSE m[CHOOSE x \in at : \A y \in at : x <= y]

\* cls._links or tuple(): the tuple of the nearest class that declares _links
\* (ResourceBase declares none)
DeclaredLinks(c) ==
  LET m == Mro(c)
      at == {k \in 1..Len(m) : IsUser(cls_tab, m[k]) /\ cls_tab[UserClass(cls_tab, m[k])].declares}
  IN IF at = {} THEN <<>>
     ELSE cls_tab[UserClass(cls_tab, m[CHOOSE x \in at : \A y \in at : x <= y])].links
\* cls.manager: the nearest class that sets one (ResourceBase sets none)
HasManager(c) ==
  \E k \in 1..Len(Mro(c)) :
    IsUser(cls_tab, Mro(c)[k]) /\ cls_tab[UserClass(cls_tab, Mro(c)[k])].manager

\* The manager of the scene.
ManagerFields == <<"id", "name">>
PaginationPk == "page"
PaginationCount == "count"

Relationship(name, relation, embedded, query_args, no_pks) ==
  [name |-> name, relation |-> relation, embedded |-> embedded,
   query_args |-> query_args, no_pks |-> no_pks]

\* Create.get_base_links(actual_class)
CreateBaseLinks(actual_class) ==
  <<Relationship("created", actual_class, TRUE, <<>>, FALSE)>>
\* RetrieveList.get_base_links(actual_class)
RetrieveListBaseLinks(actual_class) ==
  LET fields == IF HasManager(actual_class)
                THEN ManagerFields \o <<PaginationPk, PaginationCount>>
                ELSE <<>>
  IN <<Relationship("next", actual_class, FALSE, fields, TRUE),
       Relationship("previous", actual_class, FALSE, fields, TRUE)>>
\* X.get_base_links(actual) for the class X that the lookup finds
GetBaseLinksOf(definer, actual) ==
  CASE definer = "Create" -> CreateBaseLinks(actual)
    [] definer = "RetrieveList" -> RetrieveListBaseLinks(actual)

\* cls.links: the links classproperty of the nearest class that defines one
Links(cls) ==
  LET d == Definer(cls, DefinesLinks)
      own == DeclaredLinks(cls)
  IN CASE d = "Create" -> own \o CreateBaseLinks(cls)
       [] d = "RetrieveList" ->
            own \o GetBaseLinksOf(Definer(cls, DefinesGetBaseLinks), cls)
       [] d = "CRUDL" ->
            own \o CreateBaseLinks(cls)
                \o GetBaseLinksOf(Definer("RetrieveRetrieveList", DefinesGetBaseLinks), cls)
       [] OTHER -> own

\* class MyResource(B1, ..., Bk): _links = ...; manager = ...
SelfLink == <<Relationship("self", "MyResource", FALSE, <<>>, FALSE)>>
BaseLists(known) ==
  {<<a>> : a \in known} \cup
  {b \in [1..MaxBases -> known] : \A i, j \in 1..MaxBases : i # j => b[i] # b[j]}
DefineClass ==
  /\ Len(cls_tab) < MaxUserClasses
  /\ \E bases \in BaseLists(LibClasses \cup {cls_tab[i].name : i \in 1..Len(cls_tab)}),
        declares \in BOOLEAN, manager \in BOOLEAN :
       LET name == UserNames[Len(cls_tab) + 1]
           mro == MroOf(Append(cls_tab, [name |-> name, bases |-> bases]), name)
       IN /\ Inconsistent \notin Range(mro)
          /\ cls_tab' = Append(cls_tab,
                              [name |-> name, bases |-> bases, mro |-> mro,
                               declares |-> declares,
                               links |-> IF declares THEN SelfLink ELSE <<>>,
                               manager |-> manager])
  /\ lk' = <<>> /\ rl' = <<>>
  /\ UNCHANGED decoVars

\* X.links for a class of the application or of restmixins
ReadLinks == \E c \in LibClasses \cup {cls_tab[i].name : i \in 1..Len(cls_tab)} :
  /\ lk' = <<[cls |-> c, links |-> Links(c)]>>
  /\ rl' = <<>>
  /\ UNCHANGED cls_tab
  /\ UNCHANGED decoVars

\* dict.update: the entries of other replace those of d
DictUpdate(d, other) ==
  [k \in DOMAIN d \cup DOMAIN other |-> IF k \in DOMAIN other THEN other[k] ELSE d[k]]

\* ResourceBase is not among the files; resource_name is the class's own name
\* for its collection.
ResourceName(cls) == "my_resource"
QueryKeys == {"my_resource", "name"}
QueryArgs == UNION {[ks -> {"x", "y"}] : ks \in SUBSET QueryKeys}
ManagerLists == {"[]", "[{id: 1}]"}
ManagerMetas == {"{count: 0}", "{count: 1}"}

\* RetrieveList.retrieve_list(cls, request), the manager returning (props, meta).
\* This is the body; what apimethod and translate do around a body is Spec.
RetrieveListBody(cls, query_args, props, meta) ==
  LET return_props == DictUpdate([k \in {ResourceName(cls)} |-> props], query_args)
  IN [properties |-> return_props, meta |-> meta, status_code |-> 200,
      query_args |-> ManagerFields]

RetrieveList ==
  \E i \in 1..Len(cls_tab) :
    /\ "RetrieveList" \in Range(Mro(cls_tab[i].name))
    /\ HasManager(cls_tab[i].name)
    /\ \E qa \in QueryArgs, props \in ManagerLists, meta \in ManagerMetas :
       rl' = <<[cls |-> cls_tab[i].name, query_args |-> qa, props |-> props,
                meta |-> meta,
                resource |-> RetrieveListBody(cls_tab[i].name, qa, props, meta)]>>
    /\ lk' = <<>>
    /\ UNCHANGED cls_tab
    /\ UNCHANGED decoVars

Init == InitDeco /\ cls_tab = <<>> /\ lk = <<>> /\ rl = <<>>
\* The decorators of the scene are not used: validate(F), translate(F).
InitBind ==
  /\ Init
  /\ ~vdec.manager_field_validators /\ ~vdec.skip_required
  /\ ~tdec.manager_field_validators

\* Requests served by one decorated action, decoration going on.
Next ==
  \/ DefineFunction \/ DecorateApimethod \/ DecorateValidate \/ DecorateTranslate
  \/ Invoke \/ InvokeDirect
  \/ PreProcess \/ ValidateAction \/ TranslateAction \/ Body \/ PostProcess \/ Finish
Spec == Init /\ [][Next]_vars

\* Callables bound through several classes, kept and called later.
NextBind ==
  \/ DefineFunction \/ DecorateApimethod
  \/ Access \/ InvokeBound
  \/ PreProcess \/ Body \/ PostProcess \/ Finish
SpecBind == InitBind /\ [][NextBind]_vars

\* Class-definition time: stacks of decorators on two functions.
NextRoutes == StackFunction \/ StackApimethod \/ StackValidate \/ StackTranslate
SpecRoutes == Init /\ [][NextRoutes]_vars

\* The resource classes: defined, then read and called.
NextMixins == DefineClass \/ ReadLinks \/ RetrieveList
SpecMixins == InitBind /\ [][NextMixins]_vars

\* ================================================================ claims
RECURSIVE Chain(_)
\* o and the functions under it, outermost first
Chain(o) == IF fn[o].f = 0 THEN <<o>> ELSE <<o>> \o Chain(fn[o].f)
Kinds(o) == [k \in 1..Len(Chain(o)) |-> fn[Chain(o)[k]].kind]
RoutesOf(o) == IF HasRoutes(fn[o]) THEN lists[fn[o].attrs.routes] ELSE <<>>
RECURSIVE EntriesBelow(_)
\* the entries of the apimethod layers of o's stack, innermost first
EntriesBelow(o) ==
  IF o = 0 THEN <<>>
  ELSE IF fn[o].kind = "wrapped" THEN Append(EntriesBelow(fn[o].f), fn[o].self)
  ELSE EntriesBelow(fn[o].f)

Norm(e) == [e EXCEPT !.out = "-"]
IsPrefix(s, t) == Len(s) <= Len(t) /\ s = SubSeq(t, 1, Len(s))
ApiCalls == {i \in 1..Len(calls) : calls[i].wr # 0}
ActionName(c) == fn[fn[c.wr].f].name
PreEvent(c, k) ==
  Norm(Event("pre", Preprocessors(c.cls)[k], c, ActionName(c), <<>>, FALSE, NoResult, "-"))
PostEvent(c, k) ==
  Norm(Event("post", Postprocessors(c.cls)[k], c, ActionName(c), <<>>, FALSE,
             Resource(c), "-"))
BodyAt(c) == {j \in 1..Len(c.trace) : c.trace[j].ev = "body"}

\* C1: in a call of an apimethod action the pre-processors of cls come first,
\* in order, each with (cls, action name, request, extra args); the function
\* runs once; the post-processors follow it, in order, each with the function's
\* result; the call returns that result whatever the post-processors returned.
C1_ProcessorsAroundFunction ==
  \A i \in ApiCalls :
    LET c == calls[i]
        n == Len(Preprocessors(c.cls))
        m == Len(Postprocessors(c.cls))
    IN /\ \A j \in 1..Len(c.trace) :
            /\ j <= n => Norm(c.trace[j]) = PreEvent(c, j)
            /\ j > n => c.trace[j].ev # "pre"
            /\ c.trace[j].ev = "post" =>
                 \E b \in BodyAt(c) :
                   /\ b < j /\ j - b <= m
                   /\ \A k \in (b + 1)..j : Norm(c.trace[k]) = PostEvent(c, k - b)
            /\ c.trace[j].ev = "body" =>
                 /\ c.trace[j].cls = c.cls /\ c.trace[j].req = c.req
                 /\ c.trace[j].extra = c.extra
       /\ Cardinality(BodyAt(c)) <= 1
       /\ c.status = "returned" =>
            /\ \E b \in BodyAt(c) : b > n /\ Len(c.trace) = b + m
            /\ c.result = Resource(c)
            /\ ActionName(c) = fn[Chain(c.top)[Len(Chain(c.top))]].name

C1_Witness ==
  \E i \in ApiCalls :
    /\ calls[i].status = "returned" /\ calls[i].cls = "B1" /\ calls[i].extra = <<"x">>
    /\ \E j \in 1..Len(calls[i].trace) :
         calls[i].trace[j].ev = "post" /\ calls[i].trace[j].out = "value"
    /\ \E j \in 1..Len(calls[i].trace) : calls[i].trace[j].ev = "validate"

\* C7: a pre-processor or post-processor that raises is the last thing the call
\* does: the call ends with that exception, nothing runs after it, and no
\* result is returned; a call that returns has had no processor raise.
C7_ProcessorErrorAborts ==
  \A i \in ApiCalls :
    LET c == calls[i]
    IN /\ \A j \in 1..Len(c.trace) :
            (c.trace[j].ev \in {"pre", "post"} /\ c.trace[j].out = "raised") =>
               /\ j = Len(c.trace)
               /\ c.status = "raised"
               /\ c.exc = [type |-> "ProcessorError", by |-> c.trace[j].who]
               /\ c.result = NoResult
       /\ c.status = "returned" =>
            \A j \in 1..Len(c.trace) : c.trace[j].out # "raised"

C7_Witness ==
  \E i \in ApiCalls :
    LET c == calls[i]
    IN /\ c.status = "raised" /\ c.exc = [type |-> "ProcessorError", by |-> "q2"]
       /\ BodyAt(c) # {}
       /\ c.trace[Len(c.trace)].who = "q2"
       /\ c.trace[Len(c.trace) - 1].who = "q1"

ValidateLayers(o) == Cardinality({k \in 1..Len(Chain(o)) : Kinds(o)[k] = "validate"})

\* C2: request.validate gets the decorator's skip_required; the body runs only
\* after the request.validate of every validate layer; when request.validate
\* raises, that is the last thing the call does: no body, no post-processor,
\* and the call ends with the validation error.
C2_ValidateShortCircuits ==
  \A i \in 1..Len(calls) :
    LET c == calls[i]
    IN \A j \in 1..Len(c.trace) :
         /\ c.trace[j].ev = "validate" =>
              /\ c.trace[j].skip = vdec.skip_required
              /\ c.trace[j].out = "raised" =>
                   /\ j = Len(c.trace)
                   /\ c.status = "raised"
                   /\ c.exc = [type |-> "ValidationException", by |-> "request"]
                   /\ c.result = NoResult
                   /\ \A k \in 1..Len(c.trace) : c.trace[k].ev \notin {"body", "post"}
         /\ c.trace[j].ev = "body" =>
              Cardinality({k \in 1..(j - 1) : c.trace[k].ev = "validate"})
                = ValidateLayers(c.top)

C2_Witness ==
  \E i \in ApiCalls :
    LET c == calls[i]
    IN /\ c.status = "raised" /\ c.exc.type = "ValidationException"
       /\ vdec.manager_field_validators /\ vdec.skip_required
       /\ c.trace[Len(c.trace)].skip
       /\ c.trace[Len(c.trace)].fields = <<"a", "b", "c">>
       /\ Len(c.trace) = Len(Preprocessors(c.cls)) + 1

\* The request container's operation a validate or translate layer calls.
OpEvent(c, layer) ==
  LET a == fn[layer]
      flag == IF a.kind = "validate" THEN vdec.manager_field_validators
              ELSE tdec.manager_field_validators
  IN Norm(Event(a.kind, "request", c, a.name,
                IF flag THEN a.own \o ManagerFieldValidators(c.cls) ELSE a.own,
                IF a.kind = "validate" THEN vdec.skip_required ELSE FALSE,
                NoResult, "-"))
BodyEvent(c, plain) ==
  Norm(Event("body", fn[plain].name, c, fn[plain].name, <<>>, FALSE, NoResult, "-"))
Middle(c) ==
  [k \in 1..Len(SelectSeq(c.trace, LAMBDA e : e.ev \in {"validate", "translate", "body"}))
     |-> Norm(SelectSeq(c.trace, LAMBDA e : e.ev \in {"validate", "translate", "body"})[k])]
StackedBoth(o) ==
  Kinds(o) \in {<<"acm", "wrapped", "validate", "translate", "plain">>,
                <<"acm", "wrapped", "translate", "validate", "plain">>}

\* C9: with validate and translate stacked under apimethod, in either order, a
\* call runs the outer decorator's operation with the outer decorator's own
\* list, then the inner one's with the inner one's own list, then the body,
\* once; all of it after every pre-processor and before any post-processor.
C9_StackedValidateTranslate ==
  \A i \in ApiCalls :
    LET c == calls[i]
        ch == Chain(c.top)
        n == Len(Preprocessors(c.cls))
        expected == <<OpEvent(c, ch[3]), OpEvent(c, ch[4]), BodyEvent(c, ch[5])>>
    IN StackedBoth(c.top) =>
         /\ IsPrefix(Middle(c), expected)
         /\ \A j \in 1..Len(c.trace) :
              /\ c.trace[j].ev \in {"validate", "translate", "body"} =>
                   /\ j > n
                   /\ \A k \in 1..n : c.trace[k].ev = "pre"
                   /\ \A k \in 1..j : c.trace[k].ev # "post"
         /\ c.status = "returned" => Middle(c) = expected

C9_Witness ==
  \E i \in ApiCalls :
    LET c == calls[i]
    IN /\ c.status = "returned" /\ c.cls = "B2"
       /\ Kinds(c.top) = <<"acm", "wrapped", "validate", "translate", "plain">>
       /\ vdec.manager_field_validators /\ ~tdec.manager_field_validators

\* C3: the routes of the action a stack of decorators ends with are the entries
\* of the stack's apimethod layers, innermost first.
C3_RoutesConcatenate == \A o \in Decoratable : RoutesOf(o) = EntriesBelow(o)

C3_Witness ==
  \E o \in Decoratable :
    /\ Kinds(o) = <<"acm", "wrapped", "validate", "acm", "wrapped", "plain">>
    /\ Len(RoutesOf(o)) = 2 /\ RoutesOf(o)[1] # RoutesOf(o)[2]

\* C4: a callable read through class X, or through an instance of X, binds X,
\* carries the marker and the routes of the decorated action, and the body of a
\* call made through it with a request gets cls = X, whatever was read before.
C4_BindsAccessingClass ==
  /\ \A b \in bound :
       /\ b.closure.klass = b.via
       /\ b.closure.rest_route
       /\ b.closure.routes # 0
       /\ b.closure.routes = fn[b.closure.desc].attrs.routes
  /\ \A i \in 1..Len(calls) :
       calls[i].form \in Forms =>
         /\ calls[i].cls = calls[i].via
         /\ \A j \in 1..Len(calls[i].trace) :
              calls[i].trace[j].ev = "body" => calls[i].trace[j].cls = calls[i].via

C4_Witness ==
  /\ \E b \in bound : b.via = "A" /\ b.form = "class"
  /\ \E b \in bound : b.via = "B1" /\ b.form = "instance"
  /\ \E i \in 1..Len(calls) :
       /\ calls[i].via = "B1" /\ calls[i].form = "instance"
       /\ \E j \in 1..Len(calls[i].trace) :
            calls[i].trace[j].ev = "body" /\ calls[i].trace[j].cls = "B1"

\* C6: request.validate and request.translate get the fields the decorator was
\* declared with, followed by the manager's field validators of the class the
\* call is made through when manager_field_validators is set.
C6_DeclaredFieldsThenManagerFields ==
  \A i \in 1..Len(calls) :
    \A j \in 1..Len(calls[i].trace) :
      LET e == calls[i].trace[j]
      IN /\ e.ev = "validate" =>
              e.fields = IF vdec.manager_field_validators
                         THEN ValidateFields \o ManagerFieldValidators(calls[i].cls)
                         ELSE ValidateFields
         /\ e.ev = "translate" =>
              e.fields = IF tdec.manager_field_validators
                         THEN TranslateFields \o ManagerFieldValidators(calls[i].cls)
                         ELSE TranslateFields

\* C10: the lists the decorator objects hold, and the fields and
\* original_fields of every action they made, are the lists the decorators
\* were declared with, whatever calls have been made.
C10_DecorationStateUnchanged ==
  /\ vdec.fields = ValidateFields
  /\ tdec.fields = TranslateFields
  /\ \A o \in 1..Len(fn) :
       /\ fn[o].kind = "validate" =>
            fn[o].attrs.fields = ValidateFields
            /\ fn[o].attrs.original_fields = ValidateFields
       /\ fn[o].kind = "translate" =>
            fn[o].attrs.fields = TranslateFields
            /\ fn[o].attrs.original_fields = TranslateFields

HasMixin(c, mixin) == mixin \in Range(Mro(c))
ExpectedBaseLinks(c) ==
  (IF HasMixin(c, "Create") THEN Range(CreateBaseLinks(c)) ELSE {})
  \cup (IF HasMixin(c, "RetrieveList") THEN Range(RetrieveListBaseLinks(c)) ELSE {})

\* C5: the links of a class are its declared _links followed by the base links
\* of every link-contributing mixin it inherits (Create: created; RetrieveList:
\* next and previous), each once, with the class's own name as relation.
C5_LinksAccumulate ==
  \A i \in 1..Len(lk) :
    LET c == lk[i].cls
        own == DeclaredLinks(c)
        got == lk[i].links
        rest == SubSeq(got, Len(own) + 1, Len(got))
    IN /\ IsPrefix(own, got)
       /\ Range(rest) = ExpectedBaseLinks(c)
       /\ Len(rest) = Cardinality(ExpectedBaseLinks(c))

\* C8: retrieve_list returns the manager's list under resource_name, the
\* request's query args beside it, the manager's meta, and status 200.
C8_RetrieveListResource ==
  \A i \in 1..Len(rl) :
    LET r == rl[i]
        name == ResourceName(r.cls)
    IN /\ DOMAIN r.resource.properties = {name} \cup DOMAIN r.query_args
       /\ r.resource.properties[name] = r.props
       /\ \A k \in DOMAIN r.query_args \ {name} :
            r.resource.properties[k] = r.query_args[k]
       /\ r.resource.meta = r.meta
       /\ r.resource.status_code = 200
====
